---- MODULE Spec2Model ----
(***************************************************************************)
(* A model of src/src/api/client.py: the retrying HTTP client APIClient.  *)
(*                                                                         *)
(* Strings are sequences of text pieces.  In a URL every slash is a piece  *)
(* of its own ("/"), a scheme name with its colon is one piece ("https:"), *)
(* and the other pieces hold no slash; in a response body every character  *)
(* is a piece.  Under this convention str.startswith is the prefix test on *)
(* sequences and str.rstrip("/") / str.lstrip("/") drop "/" pieces.        *)
(*                                                                         *)
(* One call of request or health_check is in flight at a time; the setters *)
(* set_auth_token and set_base_url of other tasks run between its steps.   *)
(***************************************************************************)
EXTENDS Integers, Sequences, FiniteSets, TLC

VARIABLES
    base_url,          \* self.base_url
    base_given,        \* history: the base URL as last given to __init__ / set_base_url
    headers,           \* self.client.headers (name -> value)
    last_token,        \* history: the token last given to set_auth_token
    pc,                \* position of the call in flight
    call,              \* the arguments of the call in flight
    attempt_number,    \* tenacity's retry_state.attempt_number
    transport_calls,   \* number of self.client.request calls made by this call
    sent,              \* the request last handed to the transport
    outcomes,          \* the exceptions the transport raised to this call, in order
    waits,             \* the backoff sleeps of this call, in seconds, in order
    logged,            \* the errors this call logged with logger.error
    response,          \* the response the transport returned to this call
    result             \* what the call gave its caller

vars == <<base_url, base_given, headers, last_token, pc, call, attempt_number,
          transport_calls, sent, outcomes, waits, logged, response, result>>

----------------------------------------------------------------------------
(* Bounds of the model *)

MaxLeading == 2        \* leading slashes of a relative endpoint
MaxTrailing == 1       \* trailing slashes of a base URL
MaxTokenLen == 1       \* length of an auth token

(* The retry policy of the decorator *)

MaxAttempts == 3       \* stop_after_attempt(3)
WaitMultiplier == 1    \* wait_exponential(multiplier=1, ...)
WaitMin == 2           \* wait_exponential(min=2, ...)
WaitMax == 10          \* wait_exponential(max=10, ...)
ExpBase == 2           \* wait_exponential's default exp_base
HealthyStatus == 200   \* health_check: result["status"] == 200

----------------------------------------------------------------------------
(* Text helpers *)

Max(a, b) == IF a >= b THEN a ELSE b
Min(a, b) == IF a <= b THEN a ELSE b

RECURSIVE Pow(_, _)
Pow(b, e) == IF e <= 0 THEN 1 ELSE b * Pow(b, e - 1)

RECURSIVE SumSeq(_)
SumSeq(s) == IF s = <<>> THEN 0 ELSE Head(s) + SumSeq(Tail(s))

Repeat(c, k) == [i \in 1..k |-> c]

\* str.startswith(prefix)
startswith(s, prefix) ==
    /\ Len(s) >= Len(prefix)
    /\ SubSeq(s, 1, Len(prefix)) = prefix

\* str.rstrip(c)
RECURSIVE rstrip(_, _)
rstrip(s, c) ==
    IF s # <<>> /\ s[Len(s)] = c THEN rstrip(SubSeq(s, 1, Len(s) - 1), c) ELSE s

\* str.lstrip(c)
RECURSIVE lstrip(_, _)
lstrip(s, c) ==
    IF s # <<>> /\ s[1] = c THEN lstrip(Tail(s), c) ELSE s

Http == <<"http:", "/", "/">>
Https == <<"https:", "/", "/">>
Ftp == <<"ftp:", "/", "/">>
NonPrintable == "\n"

----------------------------------------------------------------------------
(* The inputs *)

BaseCores == { <<>>, Https \o <<"api">> }
BaseUrls == { core \o Repeat("/", k) : core \in BaseCores, k \in 0..MaxTrailing }

RelativeNames == { <<"posts", "/", "1">> }
RelativeEndpoints ==
    { Repeat("/", k) \o n : n \in RelativeNames, k \in 0..MaxLeading }
        \cup { Ftp \o <<"h">> }
AbsoluteEndpoints ==
    { Http \o <<"h">>, Https \o <<"h", "/", "posts">>, Https \o <<"h", NonPrintable>> }
Endpoints == RelativeEndpoints \cup AbsoluteEndpoints

Tokens == { Repeat("t", k) : k \in 0..MaxTokenLen }
NoToken == <<"<none>">>

Methods == { "get", "POST" }

EmptyHeaders == [n \in {} |-> <<>>]
BasicValue == <<"Basic", " ", "x">>
\* per-call header overrides
CallHeaders ==
    { EmptyHeaders,
      [n \in {"X-Trace"} |-> <<"1">>],
      [n \in {"Authorization"} |-> BasicValue] }
\* default_headers of the constructor
DefaultHeaderChoices == { EmptyHeaders }

\* what the transport can raise
TransientErrors == { "ConnectError", "ReadTimeout" }
\* subclasses of httpx.RequestError among the errors of the model
RequestErrors == TransientErrors \cup { "UnsupportedProtocol" }
OtherErrors == { "InvalidURL" }

Statuses == { 199, 200, 299, 300, 404, 500 }

AppJson == <<"application/json">>
\* (content-type, body) of the responses
Payloads ==
    { [ct |-> AppJson,                             body |-> <<"\"", "a", "\"">>],
      [ct |-> AppJson,                             body |-> <<"{">>],
      [ct |-> AppJson,                             body |-> <<>>],
      [ct |-> AppJson \o <<";", " charset=utf-8">>, body |-> <<" ", "1", "2">>],
      [ct |-> AppJson \o <<"-patch+json">>,        body |-> <<"[", "]">>],
      [ct |-> <<"text/html">>,                     body |-> <<"\"", "a", "\"">>],
      [ct |-> <<"text/html">>,                     body |-> <<"a">>],
      [ct |-> <<>>,                                body |-> <<"{", "}">>] }
PlainPayload == [ct |-> <<"text/html">>, body |-> <<"a">>]

Responses ==
    { [status |-> s, ct |-> PlainPayload.ct, body |-> PlainPayload.body] : s \in Statuses }
        \cup { [status |-> 200, ct |-> p.ct, body |-> p.body] : p \in Payloads }

----------------------------------------------------------------------------
(* Values handed around *)

NoExc == [cls |-> "", attempt |-> 0]
NoData == [type |-> "none", chars |-> <<>>]
NoRequest == [method |-> "", url |-> <<>>, headers |-> EmptyHeaders]
NoCall == [kind |-> "", method |-> "", endpoint |-> <<>>, headers |-> EmptyHeaders,
           token_at_start |-> NoToken, headers_at_start |-> EmptyHeaders]
NoResponse == [status |-> 0, ct |-> <<>>, body |-> <<>>]
NoResult == [kind |-> "none", status |-> 0, ok |-> FALSE, data |-> NoData,
             text |-> <<>>, exc |-> NoExc, wraps |-> NoExc, value |-> FALSE]

----------------------------------------------------------------------------
(* APIClient's helpers *)

\* f"Bearer {token}"; a variant that stores the bare token comes first
bearer_bare(token) == token

bearer(token) == <<"Bearer", " ">> \o token

\* the headers httpx sends: the client's headers updated with the per-call ones
merge_headers(client_headers, call_headers) ==
    [n \in DOMAIN client_headers \cup DOMAIN call_headers |->
        IF n \in DOMAIN call_headers THEN call_headers[n] ELSE client_headers[n]]

\* the constructor's header mapping
init_headers(default_headers) ==
    merge_headers(
        [n \in {"Content-Type", "Accept", "User-Agent"} |->
            IF n = "User-Agent" THEN <<"API-Test-Client/1.0">> ELSE AppJson],
        default_headers)

\* str.upper() on the methods of the model
upper(method) == IF method = "get" THEN "GET" ELSE method

\* _build_url; two variants come first: one that joins every endpoint to the
\* base URL, one that keeps the endpoint's leading slashes
build_url_always_join(base, endpoint) ==
    IF base # <<>> THEN base \o <<"/">> \o lstrip(endpoint, "/") ELSE endpoint

build_url_keep_slashes(base, endpoint) ==
    IF startswith(endpoint, Http) \/ startswith(endpoint, Https) THEN endpoint
    ELSE IF base # <<>> THEN base \o <<"/">> \o endpoint
    ELSE endpoint

build_url(base, endpoint) ==
    IF startswith(endpoint, Http) \/ startswith(endpoint, Https) THEN endpoint
    ELSE IF base # <<>> THEN base \o <<"/">> \o lstrip(endpoint, "/")
    ELSE endpoint

----------------------------------------------------------------------------
(* The retry policy *)

\* stop_after_attempt(3); a variant that stops one attempt later comes first
stop_after_attempt_late(n) == n > MaxAttempts

stop_after_attempt(n) == n >= MaxAttempts

\* wait_exponential(multiplier=1, min=2, max=10) after attempt n; a variant
\* without the lower limit comes first
wait_exponential_no_min(n) == Min(WaitMultiplier * Pow(ExpBase, n - 1), WaitMax)

wait_exponential(n) ==
    Max(Max(0, WaitMin), Min(WaitMultiplier * Pow(ExpBase, n - 1), WaitMax))

\* retry_if_exception_type((httpx.RequestError, httpx.ReadTimeout))
retry_if_exception_type(cls) == cls \in RequestErrors \/ cls = "ReadTimeout"

\* what tenacity raises when the attempts are used up (reraise is not set); a
\* variant that wraps nothing and re-raises the attempt's own exception comes first
retry_error_reraise(e) ==
    [NoResult EXCEPT !.kind = "raise", !.exc = e]

retry_error(e) ==
    [NoResult EXCEPT !.kind = "raise",
                     !.exc = [cls |-> "RetryError", attempt |-> 0],
                     !.wraps = e]

\* an exception that tenacity does not retry leaves request as it is
reraise(e) == [NoResult EXCEPT !.kind = "raise", !.exc = e]

----------------------------------------------------------------------------
(* The response *)

\* httpx's Response.is_success; a variant that takes every status under 400
\* comes first
is_success_lt_400(status) == status < 400

is_success(status) == 200 <= status /\ status <= 299

Digits == { "0", "1", "2", "3", "4", "5", "6", "7", "8", "9" }
Whitespace == { " ", "\n", "\t", "\r" }

RECURSIVE strip_ws(_)
strip_ws(s) ==
    IF s # <<>> /\ s[1] \in Whitespace THEN strip_ws(Tail(s))
    ELSE IF s # <<>> /\ s[Len(s)] \in Whitespace THEN strip_ws(SubSeq(s, 1, Len(s) - 1))
    ELSE s

\* Response.json() on the bodies of the model: a string without escapes, an
\* integer, null, an empty list or an empty object; anything else fails
json_loads(body) ==
    LET s == strip_ws(body)
        inner == SubSeq(s, 2, Len(s) - 1)
    IN  IF /\ Len(s) >= 2
           /\ s[1] = "\"" /\ s[Len(s)] = "\""
           /\ \A i \in 1..Len(inner) : inner[i] \notin {"\"", "\\"}
        THEN [ok |-> TRUE, value |-> [type |-> "str", chars |-> inner]]
        ELSE IF /\ s # <<>>
                /\ \A i \in 1..Len(s) : s[i] \in Digits
                /\ (Len(s) > 1 => s[1] # "0")
        THEN [ok |-> TRUE, value |-> [type |-> "int", chars |-> s]]
        ELSE IF s = <<"n", "u", "l", "l">>
        THEN [ok |-> TRUE, value |-> [type |-> "null", chars |-> <<>>]]
        ELSE IF s = <<"[", "]">>
        THEN [ok |-> TRUE, value |-> [type |-> "list", chars |-> <<>>]]
        ELSE IF s = <<"{", "}">>
        THEN [ok |-> TRUE, value |-> [type |-> "dict", chars |-> <<>>]]
        ELSE [ok |-> FALSE, value |-> NoData]

\* Response.text
text_of(body) == [type |-> "str", chars |-> body]

\* response_data of request; a variant without the fallback on a failed parse
\* comes first
response_data_no_fallback(ct, body) ==
    IF startswith(ct, AppJson) THEN json_loads(body).value ELSE text_of(body)

response_data(ct, body) ==
    IF startswith(ct, AppJson)
    THEN IF json_loads(body).ok THEN json_loads(body).value ELSE text_of(body)
    ELSE text_of(body)

\* the mapping request returns
request_result(resp) ==
    [NoResult EXCEPT !.kind = "return",
                     !.status = resp.status,
                     !.ok = is_success(resp.status),
                     !.data = response_data(resp.ct, resp.body),
                     !.text = resp.body]

\* health_check's try/except around get("health"); a variant that takes every
\* successful status comes first
health_check_result_ok(r) ==
    [NoResult EXCEPT !.kind = "return", !.value = (r.kind = "return" /\ r.ok)]

health_check_result(r) ==
    [NoResult EXCEPT !.kind = "return",
                     !.value = (r.kind = "return" /\ r.status = HealthyStatus)]

\* what the caller of the call in flight gets when its request ends with r
caller_gets(kind, r) == IF kind = "health_check" THEN health_check_result(r) ELSE r

----------------------------------------------------------------------------
(* The transport *)

has_non_printable(url) == \E i \in 1..Len(url) : url[i] = NonPrintable

\* the exceptions httpx can raise for a request to url
raisable(url) ==
    IF has_non_printable(url) THEN { "InvalidURL" }
    ELSE IF ~(startswith(url, Http) \/ startswith(url, Https)) THEN { "UnsupportedProtocol" }
    ELSE TransientErrors

\* whether the request to url can reach a server and get a response
answerable(url) ==
    /\ ~has_non_printable(url)
    /\ startswith(url, Http) \/ startswith(url, Https)

----------------------------------------------------------------------------
(* The state after APIClient(base_url=b, default_headers=d) *)

Init ==
    /\ \E b \in BaseUrls :
        /\ base_given = b
        /\ base_url = IF b # <<>> THEN rstrip(b, "/") ELSE <<>>
    /\ \E d \in DefaultHeaderChoices : headers = init_headers(d)
    /\ last_token = NoToken
    /\ pc = "idle"
    /\ call = NoCall
    /\ attempt_number = 0
    /\ transport_calls = 0
    /\ sent = NoRequest
    /\ outcomes = <<>>
    /\ waits = <<>>
    /\ logged = <<>>
    /\ response = NoResponse
    /\ result = NoResult

call_vars == <<pc, call, attempt_number, transport_calls, sent, outcomes, waits,
               logged, response, result>>

----------------------------------------------------------------------------
(* The setters.  They run in other tasks of the event loop, so never between *)
(* the start of an attempt and its await of the transport: that stretch of   *)
(* request has no suspension point.                                          *)

set_auth_token(token) ==
    /\ pc # "attempt"
    /\ headers' = [n \in DOMAIN headers \cup {"Authorization"} |->
                      IF n = "Authorization" THEN bearer(token) ELSE headers[n]]
    /\ last_token' = token
    /\ UNCHANGED <<base_url, base_given, call_vars>>

set_base_url(b) ==
    /\ pc # "attempt"
    /\ base_url' = rstrip(b, "/")
    /\ base_given' = b
    /\ UNCHANGED <<headers, last_token, call_vars>>

----------------------------------------------------------------------------
(* One call: request(method, endpoint, headers=h), or health_check() *)

begin_call(c) ==
    /\ pc = "idle"
    /\ call' = c
    /\ pc' = "attempt"
    /\ attempt_number' = 1
    /\ transport_calls' = 0
    /\ sent' = NoRequest
    /\ outcomes' = <<>>
    /\ waits' = <<>>
    /\ logged' = <<>>
    /\ response' = NoResponse
    /\ result' = NoResult
    /\ UNCHANGED <<base_url, base_given, headers, last_token>>

\* request is called (get, post, put, patch and delete forward to it)
request(method, endpoint, h) ==
    begin_call([kind |-> "request", method |-> method, endpoint |-> endpoint,
                headers |-> h, token_at_start |-> last_token,
                headers_at_start |-> headers])

\* health_check is called: self.get("health", timeout=5.0)
health_check ==
    begin_call([kind |-> "health_check", method |-> "GET", endpoint |-> <<"health">>,
                headers |-> EmptyHeaders, token_at_start |-> last_token,
                headers_at_start |-> headers])

\* one attempt up to the await: the URL is built and self.client.request is called;
\* a variant that sends the client headers as they were when the call started
\* comes first
attempt_send_snapshot ==
    /\ pc = "attempt"
    /\ sent' = [method |-> upper(call.method),
                url |-> build_url(base_url, call.endpoint),
                headers |-> merge_headers(call.headers_at_start, call.headers)]
    /\ transport_calls' = transport_calls + 1
    /\ pc' = "awaiting"
    /\ UNCHANGED <<base_url, base_given, headers, last_token, call, attempt_number,
                   outcomes, waits, logged, response, result>>

attempt_send ==
    /\ pc = "attempt"
    /\ sent' = [method |-> upper(call.method),
                url |-> build_url(base_url, call.endpoint),
                headers |-> merge_headers(headers, call.headers)]
    /\ transport_calls' = transport_calls + 1
    /\ pc' = "awaiting"
    /\ UNCHANGED <<base_url, base_given, headers, last_token, call, attempt_number,
                   outcomes, waits, logged, response, result>>

\* the transport returns a response: the attempt returns the result mapping
transport_responds(resp) ==
    /\ pc = "awaiting"
    /\ answerable(sent.url)
    /\ response' = resp
    /\ result' = caller_gets(call.kind, request_result(resp))
    /\ pc' = "done"
    /\ UNCHANGED <<base_url, base_given, headers, last_token, call, attempt_number,
                   transport_calls, sent, outcomes, waits, logged>>

\* the transport raises: the attempt logs and re-raises, and tenacity decides
transport_raises(cls) ==
    LET e == [cls |-> cls, attempt |-> attempt_number] IN
    /\ pc = "awaiting"
    /\ cls \in raisable(sent.url)
    /\ outcomes' = Append(outcomes, e)
    /\ logged' = Append(logged, e)
    /\ IF ~retry_if_exception_type(cls)
       THEN /\ result' = caller_gets(call.kind, reraise(e))
            /\ pc' = "done"
            /\ waits' = waits
       ELSE IF stop_after_attempt(attempt_number)
       THEN /\ result' = caller_gets(call.kind, retry_error(e))
            /\ pc' = "done"
            /\ waits' = waits
       ELSE /\ waits' = Append(waits, wait_exponential(attempt_number))
            /\ pc' = "backoff"
            /\ result' = result
    /\ UNCHANGED <<base_url, base_given, headers, last_token, call, attempt_number,
                   transport_calls, sent, response>>

\* the backoff sleep is over: tenacity starts the next attempt
backoff_elapses ==
    /\ pc = "backoff"
    /\ attempt_number' = attempt_number + 1
    /\ pc' = "attempt"
    /\ UNCHANGED <<base_url, base_given, headers, last_token, call, transport_calls,
                   sent, outcomes, waits, logged, response, result>>

\* the caller takes the result or the exception; the client is free for the next call
call_returns ==
    /\ pc = "done"
    /\ pc' = "idle"
    /\ call' = NoCall
    /\ attempt_number' = 0
    /\ transport_calls' = 0
    /\ sent' = NoRequest
    /\ outcomes' = <<>>
    /\ waits' = <<>>
    /\ logged' = <<>>
    /\ response' = NoResponse
    /\ result' = NoResult
    /\ UNCHANGED <<base_url, base_given, headers, last_token>>

Next ==
    \/ \E t \in Tokens : set_auth_token(t)
    \/ \E b \in BaseUrls : set_base_url(b)
    \/ \E m \in Methods, e \in Endpoints, h \in CallHeaders : request(m, e, h)
    \/ health_check
    \/ attempt_send
    \/ \E resp \in Responses : transport_responds(resp)
    \/ \E cls \in TransientErrors \cup {"UnsupportedProtocol"} \cup OtherErrors :
          transport_raises(cls)
    \/ backoff_elapses
    \/ call_returns

Spec == Init /\ [][Next]_vars

TypeOK ==
    /\ pc \in {"idle", "attempt", "awaiting", "backoff", "done"}
    /\ attempt_number \in 0..(MaxAttempts + 1)
    /\ transport_calls \in 0..(MaxAttempts + 1)

----------------------------------------------------------------------------
(* Retry: attempts, backoff and what reaches the caller *)

AllOutcomes(classes) ==
    /\ outcomes # <<>>
    /\ \A i \in 1..Len(outcomes) : outcomes[i].cls \in classes

\* C1: when every attempt of a request call fails with a connection error, the
\* call makes exactly 3 transport attempts, never a fourth, and ends by raising
\* to its caller instead of returning a result.
C1_ThreeAttemptsThenRaise ==
    /\ transport_calls <= 3
    /\ (call.kind = "request" /\ AllOutcomes({"ConnectError"}) /\ response = NoResponse) =>
          /\ pc = "done" => (transport_calls = 3 /\ result.kind = "raise")
          /\ Len(outcomes) = 3 => pc = "done"

C1_Witness ==
    /\ pc = "done"
    /\ call.kind = "request"
    /\ AllOutcomes({"ConnectError"})
    /\ transport_calls = 3
    /\ result.kind = "raise"

\* a request call whose attempts 1 and 2 failed with a connection error and whose
\* attempt 3 got a response
FailedTwiceThenSucceeded ==
    /\ pc = "done"
    /\ call.kind = "request"
    /\ Len(outcomes) = 2
    /\ AllOutcomes({"ConnectError"})
    /\ response # NoResponse

C3_StatusNeverRetried ==
    /\ (outcomes = <<>> /\ pc # "idle") => (transport_calls <= 1 /\ waits = <<>>)
    /\ (call.kind = "request" /\ response # NoResponse) =>
          /\ pc = "done"
          /\ result.kind = "return"
          /\ result.status = response.status
          /\ result.ok <=> (200 <= response.status /\ response.status <= 299)
          /\ outcomes = <<>> => transport_calls = 1

C3_Witness ==
    /\ pc = "done"
    /\ call.kind = "request"
    /\ response.status = 500
    /\ result.kind = "return"
    /\ ~result.ok
    /\ transport_calls = 1
    /\ waits = <<>>

\* a request call whose 3 attempts all failed with an error the policy retries
RetriesExhausted ==
    /\ pc = "done"
    /\ call.kind = "request"
    /\ Len(outcomes) = 3
    /\ AllOutcomes(TransientErrors)

\* C4 as stated: when all 3 attempts fail with a retryable error, the caller
\* gets the very exception the transport raised on the last attempt.
C4_LastExceptionPropagates ==
    RetriesExhausted =>
        /\ result.kind = "raise"
        /\ result.exc = outcomes[3]

\* C4 as amended: when all 3 attempts fail with a retryable error, the caller
\* gets a RetryError that wraps the exception the transport raised on the last
\* attempt, and every attempt's exception has been logged.
C4_RetryErrorWrapsLast ==
    RetriesExhausted =>
        /\ result.kind = "raise"
        /\ result.exc.cls = "RetryError"
        /\ result.wraps = outcomes[3]
        /\ result.wraps.attempt = 3
        /\ logged = outcomes

C4_Witness ==
    /\ RetriesExhausted
    /\ outcomes[1].cls = "ConnectError"
    /\ outcomes[3].cls = "ReadTimeout"
    /\ result.exc.cls = "RetryError"
    /\ result.wraps.cls = "ReadTimeout"

\* C5: only a connection/network error or a read timeout is retried: a request
\* call whose attempt fails with any other error, the unsupported-URL error of
\* a relative endpoint without a base URL included, makes exactly one attempt
\* and that error reaches the caller at once, with no backoff wait.
C5_OnlyTransientRetried ==
    (call.kind = "request" /\ outcomes # <<>> /\ outcomes[1].cls \notin TransientErrors) =>
        /\ pc = "done"
        /\ transport_calls = 1
        /\ waits = <<>>
        /\ result.kind = "raise"
        /\ result.exc = outcomes[1]

----------------------------------------------------------------------------
(* health_check *)

\* C6: health_check never raises: it returns true exactly when its GET of the
\* health endpoint ended with a response of status 200, and false for every
\* other outcome: another status, a timeout, an error that is not retried,
\* retries used up.
C6_HealthCheckNeverRaises ==
    (call.kind = "health_check" /\ pc = "done") =>
        /\ result.kind = "return"
        /\ result.value <=> (response # NoResponse /\ response.status = 200)
        /\ call.endpoint = <<"health">>
        /\ sent.method = "GET"

C6_Witness ==
    /\ call.kind = "health_check"
    /\ pc = "done"
    /\ Len(outcomes) = 3
    /\ outcomes[3].cls = "ReadTimeout"
    /\ result.kind = "return"
    /\ ~result.value

----------------------------------------------------------------------------
(* Headers *)

\* an attempt is handed to the transport in this step
Sends == transport_calls' = transport_calls + 1

\* the token was set before the call in flight started and not changed since
TokenInEffect == last_token # NoToken /\ call.token_at_start = last_token

CarriesBearer(req, token) ==
    /\ "Authorization" \in DOMAIN req.headers
    /\ req.headers["Authorization"] = <<"Bearer", " ">> \o token

\* C7 as stated: after set_auth_token(t), every attempt of every call started
\* afterwards, whatever its per-call arguments, goes to the transport with
\* Authorization equal to "Bearer t", until the token is set again.
C7_EveryRequestCarriesBearer ==
    [][(Sends /\ TokenInEffect) => CarriesBearer(sent', last_token)]_vars

\* C7 as amended: after set_auth_token(t), every attempt of every call started
\* afterwards whose per-call headers do not themselves give Authorization goes
\* to the transport with Authorization equal to "Bearer t", until the token is
\* set again.
C7_BearerUnlessOverridden ==
    [][(Sends /\ TokenInEffect /\ "Authorization" \notin DOMAIN call.headers)
          => CarriesBearer(sent', last_token)]_vars

C7_Witness ==
    /\ pc = "awaiting"
    /\ attempt_number = 2
    /\ TokenInEffect
    /\ "X-Trace" \in DOMAIN call.headers
    /\ CarriesBearer(sent, <<"t">>)

----------------------------------------------------------------------------
(* URL building *)

IsAbsolute(e) ==
    /\ Len(e) >= 3
    /\ e[1] \in {"http:", "https:"}
    /\ e[2] = "/"
    /\ e[3] = "/"

\* s without its trailing slashes / without its leading slashes
StripTrailing(s) ==
    LET keep == { i \in 0..Len(s) : \A j \in (i + 1)..Len(s) : s[j] = "/" }
        n == CHOOSE i \in keep : \A k \in keep : i <= k
    IN  SubSeq(s, 1, n)

StripLeading(s) ==
    LET drop == { i \in 0..Len(s) : \A j \in 1..i : s[j] = "/" }
        n == CHOOSE i \in drop : \A k \in drop : i >= k
    IN  SubSeq(s, n + 1, Len(s))

\* C8: for an endpoint that starts with http:// or https://, the URL handed to
\* the transport is the endpoint unchanged, whatever the base URL is.
C8_AbsoluteEndpointUnchanged ==
    (sent # NoRequest /\ IsAbsolute(call.endpoint)) => sent.url = call.endpoint

C8_Witness ==
    /\ pc = "awaiting"
    /\ base_url # <<>>
    /\ IsAbsolute(call.endpoint)
    /\ sent.url = call.endpoint

\* C9 as stated: for every non-empty base URL B and relative endpoint E, the
\* URL handed to the transport is B without its trailing slashes, one slash,
\* and E without its leading slashes.
C9_JoinedWithOneSlash ==
    [][(Sends /\ base_given # <<>> /\ ~IsAbsolute(call.endpoint))
          => sent'.url = StripTrailing(base_given) \o <<"/">> \o StripLeading(call.endpoint)]_vars

\* C9 as amended: for every base URL B that is non-empty once its trailing
\* slashes are removed and every relative endpoint E, the URL handed to the
\* transport is B without its trailing slashes, one slash, and E without its
\* leading slashes.
C9_JoinedWhenBaseRemains ==
    [][(Sends /\ StripTrailing(base_given) # <<>> /\ ~IsAbsolute(call.endpoint))
          => sent'.url = StripTrailing(base_given) \o <<"/">> \o StripLeading(call.endpoint)]_vars

C9_Witness ==
    /\ pc = "awaiting"
    /\ base_given = Https \o <<"api", "/">>
    /\ call.endpoint = <<"/", "/", "posts", "/", "1">>
    /\ sent.url = Https \o <<"api", "/", "posts", "/", "1">>

----------------------------------------------------------------------------
(* Response normalisation *)

\* the media type of the content-type is application/json
IsJsonMediaType(ct) ==
    /\ ct # <<>>
    /\ ct[1] = "application/json"
    /\ Len(ct) > 1 => ct[2] = ";"

BeginsWithJson(ct) == ct # <<>> /\ ct[1] = "application/json"

RawText(body) == [type |-> "str", chars |-> body]

\* C10 as stated: a response never makes request raise; data is the parsed JSON
\* value when the content-type is application/json and the body is valid JSON,
\* and the raw text for any other content-type or when parsing fails.
C10_JsonOnlyForJsonType ==
    (call.kind = "request" /\ response # NoResponse) =>
        /\ result.kind = "return"
        /\ result.text = response.body
        /\ result.data =
              IF IsJsonMediaType(response.ct) /\ json_loads(response.body).ok
              THEN json_loads(response.body).value
              ELSE RawText(response.body)

\* C10 as amended: a response never makes request raise; data is the parsed
\* JSON value when the content-type begins with application/json and the body
\* is valid JSON, and the raw text for any other content-type or when parsing
\* fails.
C10_JsonForJsonPrefix ==
    (call.kind = "request" /\ response # NoResponse) =>
        /\ result.kind = "return"
        /\ result.text = response.body
        /\ result.data =
              IF BeginsWithJson(response.ct) /\ json_loads(response.body).ok
              THEN json_loads(response.body).value
              ELSE RawText(response.body)

C10_Witness ==
    /\ call.kind = "request"
    /\ pc = "done"
    /\ response.ct = AppJson
    /\ response.body = <<"\"", "a", "\"">>
    /\ result.data = [type |-> "str", chars |-> <<"a">>]
    /\ result.text = <<"\"", "a", "\"">>

----------------------------------------------------------------------------
(* set_auth_token while a call is in flight *)

Absent == <<"<absent>">>
AuthorizationOf(h) == IF "Authorization" \in DOMAIN h THEN h["Authorization"] ELSE Absent

NoCallAuthorization == "Authorization" \notin DOMAIN call.headers

\* C11 as stated: set_auth_token does not reach a call in flight: every attempt
\* of a call, a retry after a backoff wait included, goes to the transport with
\* the Authorization state the client had when the call started.
C11_AttemptsKeepStartAuthorization ==
    [][(Sends /\ NoCallAuthorization)
          => AuthorizationOf(sent'.headers) = AuthorizationOf(call.headers_at_start)]_vars

\* C11 as amended: set_auth_token does not reach an attempt already handed to
\* the transport: it leaves the request in flight as it was sent.  Every
\* attempt goes to the transport with the Authorization state the client has
\* when that attempt is sent, so a retry after a backoff wait in which
\* set_auth_token(t) ran carries "Bearer t".
C11_AttemptsCarryCurrentAuthorization ==
    [][/\ (last_token' # last_token /\ pc \in {"awaiting", "backoff"})
              => (sent' = sent /\ pc' = pc /\ call' = call)
       /\ (Sends /\ NoCallAuthorization) =>
              IF last_token = NoToken
              THEN AuthorizationOf(sent'.headers) = Absent
              ELSE CarriesBearer(sent', last_token)]_vars

\* a retry sent with a token that was set during the backoff wait of its call
C11_Witness ==
    /\ pc = "awaiting"
    /\ attempt_number = 2
    /\ NoCallAuthorization
    /\ call.token_at_start = NoToken
    /\ AuthorizationOf(call.headers_at_start) = Absent
    /\ last_token = <<"t">>
    /\ CarriesBearer(sent, <<"t">>)

====
